---- MODULE Spec2Model ----
(***************************************************************************)
(* Model of the IEEE 488.2 arbitrary block codec and block reader of       *)
(* sindri (src/ieee4882/arbitrary_block.py) together with the Verifiable   *)
(* mixin it inherits from (src/mixins.py), and of the command pipeline of  *)
(* a driver connection: ErrorQueueInstrument over IORateLimiterMixin over  *)
(* the transport (src/mixins.py, src/sindri/anritsu/common.py).            *)
(*                                                                         *)
(* A bytes value is a sequence of integers 0..255.  An optional argument   *)
(* (None or a value) is a sequence of length 0 or 1.                       *)
(***************************************************************************)
EXTENDS Integers, Sequences, FiniteSets, TLC

VARIABLES
    arg,        \* arguments of the call under way: constructor / _create_block
    blk,        \* the block object the constructor produced (or the exception)
    ret,        \* value returned by the last accessor / method call
    now,        \* the UTC clock read by generate_timestamp
    wire,       \* bytes the byte source of raw_recv holds
    pos,        \* number of bytes of wire consumed so far
    reads,      \* sizes requested from raw_recv, in order
    rpc,        \* position inside read_definite_length_block
    rd,         \* locals of read_definite_length_block
    inbuf,      \* the caller's own buffer that was passed to the constructor
    conn,       \* the connection object: class attributes and own __dict__
    stack,      \* frames of the pipeline methods under way, innermost last
    retv,       \* what the method that returned last handed to its caller
    log,        \* transport calls and drains of the top-level call under way
    io,         \* timing of the rate limiter's transport calls
    peer        \* __dict__ of a second connection object of the same class

vars == <<arg, blk, ret, now, wire, pos, reads, rpc, rd, inbuf,
          conn, stack, retv, log, io, peer>>

-----------------------------------------------------------------------------
(* Bounds of the model.                                                    *)

MaxPayloadLen == 11
MaxBlockLen == 5
MaxNow == 1
MaxSmallPayload == 3
MaxReadPayload == 10
MaxJunkLen == 4
MaxTrail == 1
MaxMutLen == 4
MaxTime == 2
MaxDelta == 2
MaxDelay == 1
MaxDuration == 1
MaxReads == 8

(* Bytes the inputs are built from.                                        *)
PayloadBytes == {35, 57}
BlockBytes == {35, 48, 49, 50, 45, 97}
JunkBytes == {35, 48, 49, 50, 45, 97}
ReadPayloadBytes == {35, 49}
Terminations == {<<10>>, <<13, 10>>}
ChunkSizes == {0, 1, 3, 7, 11}
MutBytes == {35, 49, 97}

-----------------------------------------------------------------------------
(* Python built-ins the code relies on.                                    *)

None == <<>>
Some(v) == <<v>>

Min(a, b) == IF a < b THEN a ELSE b
Max(a, b) == IF a > b THEN a ELSE b

SeqsUpTo(S, n) == UNION {[1..k -> S] : k \in 0..n}

IsDigit(b) == b \in 48..57
IsSpace(b) == b \in {9, 10, 11, 12, 13, 32}

\* s[b:e] for a bytes value s: negative indices count from the end, and
\* both ends are clamped to the length.
PyNormIndex(s, i) == IF i < 0 THEN Max(Len(s) + i, 0) ELSE Min(i, Len(s))
PySlice(s, b, e) ==
    LET lo == PyNormIndex(s, b)
        hi == PyNormIndex(s, e)
    IN  IF lo >= hi THEN <<>> ELSE SubSeq(s, lo + 1, hi)

\* str(n).encode('latin1') for an integer n >= 0.
RECURSIVE PyStr(_)
PyStr(n) == IF n < 10 THEN <<48 + n>> ELSE PyStr(n \div 10) \o <<48 + (n % 10)>>

RECURSIVE LStrip(_)
LStrip(s) == IF s # <<>> /\ IsSpace(s[1]) THEN LStrip(Tail(s)) ELSE s
RECURSIVE RStrip(_)
RStrip(s) == IF s # <<>> /\ IsSpace(s[Len(s)])
             THEN RStrip(SubSeq(s, 1, Len(s) - 1)) ELSE s

\* The digit part of an integer literal: digits, with single underscores
\* allowed between two digits.
ValidDigits(s) ==
    /\ s # <<>>
    /\ \A i \in 1..Len(s) :
          \/ IsDigit(s[i])
          \/ /\ s[i] = 95
             /\ i > 1 /\ i < Len(s)
             /\ IsDigit(s[i - 1]) /\ IsDigit(s[i + 1])

RECURSIVE DigitsValue(_, _)
DigitsValue(s, acc) ==
    IF s = <<>> THEN acc
    ELSE IF s[1] = 95 THEN DigitsValue(Tail(s), acc)
    ELSE DigitsValue(Tail(s), 10 * acc + (s[1] - 48))

\* int(s) for a bytes value s: surrounding whitespace is dropped, one sign
\* is allowed; anything else raises ValueError (ok = FALSE).
PyInt(s) ==
    LET t == RStrip(LStrip(s))
        signed == t # <<>> /\ t[1] \in {43, 45}
        body == IF signed THEN Tail(t) ELSE t
    IN  IF ValidDigits(body)
        THEN [ok |-> TRUE,
              val |-> IF signed /\ t[1] = 45
                      THEN 0 - DigitsValue(body, 0) ELSE DigitsValue(body, 0)]
        ELSE [ok |-> FALSE, val |-> 0]

\* Truth value of an optional bytes argument: None and b'' are both false.
Truthy(opt) == opt # None /\ opt[1] # <<>>

-----------------------------------------------------------------------------
(* Verifiable (src/mixins.py).                                             *)

\* hashlib.sha256(data).digest(): a value determined by data alone.
compute_checksum(data) == <<"sha256", data>>

generate_timestamp == now

\* The class attributes Verifiable.__utc_stamp and Verifiable.__checksum
\* (lines 237-238).  Inside Verifiable these names are _Verifiable__utc_stamp
\* and _Verifiable__checksum; nothing ever assigns them.
Verifiable__utc_stamp == None
Verifiable__checksum == None

\* The utc_stamp and checksum properties: copies of the Verifiable fields.
utc_stamp(b) == Verifiable__utc_stamp
checksum(b) == Verifiable__checksum

-----------------------------------------------------------------------------
(* ArbitraryBlock and its subclasses.                                      *)

Raised(e) == [state |-> "raised", exc |-> e]

\* The outcome of raising NeitherBlockNorDataError(): its __init__ reads
\* self.message, which a ValueError does not have.
NeitherBlockNorDataError == Raised("AttributeError")

\* _get_data_slice with the payload taken to start one byte early.
_get_data_slice_EarlyBegin(cls, block) ==
    LET n == PyInt(PySlice(block, 1, 2))
        m == PyInt(PySlice(block, 2, n.val + 2))
    IN  IF cls = "IndefiniteLengthBlock" THEN [ok |-> FALSE, exc |-> "TypeError"]
        ELSE IF PySlice(block, 0, 1) # <<35>>
        THEN [ok |-> FALSE, exc |-> "InvalidBlockFormatError"]
        ELSE IF ~n.ok \/ ~m.ok THEN [ok |-> FALSE, exc |-> "ValueError"]
        ELSE [ok |-> TRUE, begin |-> n.val + 1, end |-> n.val + 1 + m.val]

\* _get_data_slice: [ok, begin, end] or [ok = FALSE, exc].
_get_data_slice(cls, block) ==
    IF cls = "IndefiniteLengthBlock"
    THEN [ok |-> FALSE, exc |-> "TypeError"]      \* raise NotImplemented()
    ELSE
    LET pound == PySlice(block, 0, 1)
        length_digits == PySlice(block, 1, 2)
        n == PyInt(length_digits)
        data_length == PySlice(block, 2, n.val + 2)
        m == PyInt(data_length)
        data_begin == n.val + 2
        data_end == data_begin + m.val
    IN  IF pound # <<35>>
        THEN [ok |-> FALSE, exc |-> "InvalidBlockFormatError"]
        ELSE IF ~n.ok THEN [ok |-> FALSE, exc |-> "ValueError"]
        ELSE IF ~m.ok THEN [ok |-> FALSE, exc |-> "ValueError"]
        ELSE [ok |-> TRUE, begin |-> data_begin, end |-> data_end]

\* _create_block with the digit count always written as 1.
_create_block_OneDigit(cls, data) ==
    IF cls = "IndefiniteLengthBlock"
    THEN [ok |-> FALSE, exc |-> "TypeError"]
    ELSE [ok |-> TRUE, block |-> <<35, 49>> \o PyStr(Len(data)) \o data]

\* _create_block: [ok, block] or [ok = FALSE, exc].
_create_block(cls, data) ==
    IF cls = "IndefiniteLengthBlock"
    THEN [ok |-> FALSE, exc |-> "TypeError"]      \* raise NotImplemented()
    ELSE
    LET length == Len(data)
        length_digits == Len(PyStr(length))
        header_string == <<35>> \o PyStr(length_digits) \o PyStr(length)
    IN  [ok |-> TRUE, block |-> header_string \o data]

\* The object state after the tail of __init__ (lines 76-78).  The fields
\* utc_stamp and checksum are the ones __init__ assigns, which inside
\* ArbitraryBlock are named _ArbitraryBlock__utc_stamp and
\* _ArbitraryBlock__checksum; mutable tells whether the stored block is a
\* bytearray.
Stamped(cls, block, sl, block_id, mutable) ==
    [state |-> "ok", cls |-> cls, block |-> block,
     begin |-> sl.begin, end |-> sl.end,
     block_id |-> block_id,
     mutable |-> mutable,
     utc_stamp |-> generate_timestamp,
     checksum |-> compute_checksum(PySlice(block, sl.begin, sl.end))]

\* ArbitraryBlock.__init__(block, block_id, data) for class cls; buf is the
\* type of the buffer passed, "bytes" or "bytearray".  deepcopy(block)
\* stores a copy of the same type; _create_block builds a new bytes value.
NewBlock(cls, block, block_id, data, buf) ==
    IF Truthy(block)
    THEN LET sl == _get_data_slice(cls, block[1])
         IN  IF sl.ok
             THEN Stamped(cls, block[1], sl, block_id, buf = "bytearray")
             ELSE Raised(sl.exc)
    ELSE IF Truthy(data)
    THEN LET cb == _create_block(cls, data[1])
         IN  IF ~cb.ok THEN Raised(cb.exc)
             ELSE LET sl == _get_data_slice(cls, cb.block)
                  IN  IF sl.ok THEN Stamped(cls, cb.block, sl, block_id, FALSE)
                      ELSE Raised(sl.exc)
    ELSE NeitherBlockNorDataError

\* The raw and data properties of a constructed block.
Raw(b) == b.block
Data(b) == PySlice(Raw(b), b.begin, b.end)

NoBlock == [state |-> "none"]
NoRet == [kind |-> "none"]
NoLocals == [pound |-> <<>>, ndigits |-> <<>>, block_length |-> <<>>,
             data |-> <<>>, bytes_remaining |-> 0, receive_chunk |-> None]

-----------------------------------------------------------------------------
(* Specification SpecBlock: one constructor (or _create_block) call on     *)
(* arguments drawn from the bounded input sets, then accessor calls.       *)

Classes == {"DefiniteLengthBlock", "IndefiniteLengthBlock"}
Payloads == SeqsUpTo(PayloadBytes, MaxPayloadLen)
Blocks == SeqsUpTo(BlockBytes, MaxBlockLen)

CtorArgs ==
    {[op |-> "new", cls |-> c, block |-> None, data |-> Some(p), block_id |-> 0,
      buf |-> "bytes"]
        : c \in Classes, p \in Payloads}
    \cup
    {[op |-> "new", cls |-> c, block |-> Some(b), data |-> None, block_id |-> 0,
      buf |-> "bytes"]
        : c \in Classes, b \in Blocks}
    \cup
    {[op |-> "new", cls |-> c, block |-> None, data |-> None, block_id |-> 0,
      buf |-> "bytes"]
        : c \in Classes}
    \cup
    {[op |-> "new", cls |-> "DefiniteLengthBlock", block |-> Some(b),
      data |-> Some(p), block_id |-> 0, buf |-> "bytes"]
        : b \in SeqsUpTo(BlockBytes, 1), p \in SeqsUpTo(PayloadBytes, 1)}

CreateArgs ==
    {[op |-> "create", cls |-> c, block |-> None, data |-> Some(p), block_id |-> 0,
      buf |-> "bytes"]
        : c \in Classes, p \in Payloads}

\* Class-level defaults of the mixins, and a pipeline with no call under way
NoResult == [kind |-> "none"]
NoIo == [called_at |-> 0, start |-> 0, done |-> None, done_ok |-> None]
NewConn ==
    [time_of_last_io |-> None, io_wait_time |-> 0,
     auto_dequeue_error_enabled |-> FALSE, auto_dequeue_error_delay |-> 1]

\* An object's __dict__ holds, for each name, the value bound on the
\* object itself or nothing; a new object has bound nothing.
AttrNames == DOMAIN NewConn
Unbound == <<>>
Bound(v) == <<v>>
NoBinding == [name \in AttrNames |-> Unbound]
NewObject == [cls |-> NewConn, dict |-> NoBinding]

PipeStart ==
    /\ conn = NewObject
    /\ stack = <<>>
    /\ retv = NoResult
    /\ log = <<>>
    /\ io = NoIo
    /\ peer = NoBinding

PipeIdle == UNCHANGED <<conn, stack, retv, log, io, peer>>

InitBlock ==
    /\ arg \in CtorArgs \cup CreateArgs
    /\ blk = NoBlock
    /\ ret = NoRet
    /\ now \in 0..MaxNow
    /\ wire = <<>> /\ pos = 0 /\ reads = <<>> /\ rpc = "idle" /\ rd = NoLocals
    /\ inbuf = None
    /\ PipeStart

CallerIdle == UNCHANGED inbuf

ReaderIdle == UNCHANGED <<wire, pos, reads, rpc, rd>>

\* DefiniteLengthBlock(...) / IndefiniteLengthBlock(...)
Construct ==
    /\ arg.op = "new" /\ blk = NoBlock
    /\ blk' = NewBlock(arg.cls, arg.block, arg.block_id, arg.data, arg.buf)
    /\ UNCHANGED <<arg, ret, now>>
    /\ ReaderIdle /\ CallerIdle /\ PipeIdle

\* a direct call of the _create_block method
CallCreateBlock ==
    /\ arg.op = "create" /\ ret = NoRet
    /\ LET cb == _create_block(arg.cls, arg.data[1])
       IN  ret' = IF cb.ok THEN [kind |-> "block", val |-> cb.block]
                  ELSE [kind |-> "raised", exc |-> cb.exc]
    /\ UNCHANGED <<arg, blk, now>>
    /\ ReaderIdle /\ CallerIdle /\ PipeIdle

\* the raw property
GetRaw ==
    /\ blk.state = "ok"
    /\ ret' = [kind |-> "raw", val |-> Raw(blk), shared |-> TRUE]
    /\ UNCHANGED <<arg, blk, now>>
    /\ ReaderIdle /\ CallerIdle /\ PipeIdle

\* the data property
GetData ==
    /\ blk.state = "ok"
    /\ ret' = [kind |-> "data", val |-> Data(blk), shared |-> FALSE]
    /\ UNCHANGED <<arg, blk, now>>
    /\ ReaderIdle /\ CallerIdle /\ PipeIdle

\* the checksum property
GetChecksum ==
    /\ blk.state = "ok"
    /\ ret' = [kind |-> "checksum", val |-> checksum(blk), shared |-> FALSE]
    /\ UNCHANGED <<arg, blk, now>>
    /\ ReaderIdle /\ CallerIdle /\ PipeIdle

\* the utc_stamp property
GetUtcStamp ==
    /\ blk.state = "ok"
    /\ ret' = [kind |-> "utc_stamp", val |-> utc_stamp(blk), shared |-> FALSE]
    /\ UNCHANGED <<arg, blk, now>>
    /\ ReaderIdle /\ CallerIdle /\ PipeIdle

\* the clock moves on between calls
Tick ==
    /\ now < MaxNow
    /\ now' = now + 1
    /\ UNCHANGED <<arg, blk, ret>>
    /\ ReaderIdle /\ CallerIdle /\ PipeIdle

NextBlock ==
    \/ Construct \/ CallCreateBlock
    \/ GetRaw \/ GetData \/ GetChecksum \/ GetUtcStamp
    \/ Tick

SpecBlock == InitBlock /\ [][NextBlock]_vars

-----------------------------------------------------------------------------
(* Specification SpecMut: a block is built from a buffer the caller keeps, *)
(* and the caller then writes into that buffer and into the values the     *)
(* accessors hand out.  Only a bytearray can be written into.              *)

MutBlocks == SeqsUpTo(MutBytes, MaxMutLen)

MutArgs ==
    {[op |-> "new", cls |-> "DefiniteLengthBlock", block |-> Some(b),
      data |-> None, block_id |-> 0, buf |-> t]
        : b \in MutBlocks, t \in {"bytes", "bytearray"}}
    \cup
    {[op |-> "new", cls |-> "DefiniteLengthBlock", block |-> None,
      data |-> Some(p), block_id |-> 0, buf |-> "bytearray"]
        : p \in SeqsUpTo(MutBytes, 2)}

\* index values used with block[index]: slices [b:e]
ItemSlices == {<<0, 2>>, <<1, -1>>, <<2, MaxMutLen>>}

\* the byte the caller writes
Scribble == 88

InitMut ==
    /\ arg \in MutArgs
    /\ inbuf = IF arg.block # None THEN arg.block ELSE arg.data
    /\ blk = NoBlock
    /\ ret = NoRet
    /\ now = 0
    /\ wire = <<>> /\ pos = 0 /\ reads = <<>> /\ rpc = "idle" /\ rd = NoLocals
    /\ PipeStart

\* __getitem__ with a slice: a deep copy of the selected bytes
GetItem ==
    /\ blk.state = "ok"
    /\ \E sl \in ItemSlices :
          ret' = [kind |-> "item", val |-> PySlice(Raw(blk), sl[1], sl[2]),
                  shared |-> FALSE]
    /\ UNCHANGED <<arg, blk, now>>
    /\ ReaderIdle /\ CallerIdle /\ PipeIdle

\* the caller writes one byte into the value the last accessor returned;
\* when that value is the block's own buffer the block sees the write
MutateReturned ==
    /\ blk.state = "ok" /\ blk.mutable
    /\ ret.kind \in {"raw", "data", "item"}
    /\ \E i \in 1..Len(ret.val) :
          LET v == [ret.val EXCEPT ![i] = Scribble]
          IN  /\ ret' = [ret EXCEPT !.val = v]
              /\ blk' = IF ret.shared THEN [blk EXCEPT !.block = v] ELSE blk
    /\ UNCHANGED <<arg, now>>
    /\ ReaderIdle /\ CallerIdle /\ PipeIdle

\* the caller writes one byte into the bytearray it passed to the
\* constructor; the block holds a deep copy (line 68) or a newly built
\* bytes value (line 169)
MutateInput ==
    /\ blk.state = "ok" /\ arg.buf = "bytearray"
    /\ \E i \in 1..Len(inbuf[1]) :
          inbuf' = Some([inbuf[1] EXCEPT ![i] = Scribble])
    /\ UNCHANGED <<arg, blk, ret, now>>
    /\ ReaderIdle /\ PipeIdle

NextMut ==
    \/ Construct
    \/ GetRaw \/ GetData \/ GetItem \/ GetChecksum
    \/ MutateReturned \/ MutateInput

SpecMut == InitMut /\ [][NextMut]_vars

-----------------------------------------------------------------------------
(* read_definite_length_block(raw_recv, block_id, recv_termination,        *)
(* recv_chunk).  One action per raw_recv call, each running the code up    *)
(* to the next raw_recv call; the last one assembles the block.            *)

\* raw_recv(n) on a source that returns exactly the n bytes asked for and
\* fails when fewer than n are left.
RawRecv(n) ==
    IF pos + n <= Len(wire)
    THEN [ok |-> TRUE, bytes |-> SubSeq(wire, pos + 1, pos + n)]
    ELSE [ok |-> FALSE, bytes |-> <<>>]

\* line 228: the first byte must be the pound sign
PoundAccepted_Any(pound) == TRUE
PoundAccepted(pound) == pound = <<35>>

\* lines 236-237: the digit count must be one of b'1' .. b'9'
NDigitsAccepted_WithZero(ndigits) == ndigits[1] \in 48..57
NDigitsAccepted(ndigits) == ndigits[1] \in 49..57

\* line 262: the number of termination bytes asked for
TerminationSize_One(termination) == 1
TerminationSize(termination) == Len(termination)

\* line 255: the size of the next payload read
reach_WholeChunk(bytes_remaining, receive_chunk) == receive_chunk
reach(bytes_remaining, receive_chunk) == Min(bytes_remaining, receive_chunk)

\* line 258: data += received_data
Accumulate_Prepend(data, received_data) == received_data \o data
Accumulate(data, received_data) == data \o received_data

ReadRaised(e) ==
    /\ rpc' = "raised"
    /\ ret' = [kind |-> "raised", exc |-> e]

\* the call raw_recv(n) is issued: the request is logged and, when the
\* source delivers, the bytes are consumed
Consume(n) ==
    /\ reads' = Append(reads, n)
    /\ pos' = IF RawRecv(n).ok THEN pos + n ELSE pos

\* where the code goes once the payload loop is left
AfterPayload == IF Truthy(arg.term) THEN "term" ELSE "assemble"

\* lines 227-232
ReadPound ==
    /\ arg.op = "read" /\ rpc = "start"
    /\ Consume(1)
    /\ LET r == RawRecv(1)
       IN  IF ~r.ok THEN ReadRaised("TransportError") /\ UNCHANGED rd
           ELSE /\ rd' = [rd EXCEPT !.pound = r.bytes]
                /\ IF ~PoundAccepted(r.bytes)
                   THEN ReadRaised("UnexpectedResponseFormatError")
                   ELSE rpc' = "ndigits" /\ UNCHANGED ret
    /\ UNCHANGED <<arg, blk, now, wire>>
    /\ CallerIdle /\ PipeIdle

\* lines 234-241
ReadNDigits ==
    /\ arg.op = "read" /\ rpc = "ndigits"
    /\ Consume(1)
    /\ LET r == RawRecv(1)
       IN  IF ~r.ok THEN ReadRaised("TransportError") /\ UNCHANGED rd
           ELSE /\ rd' = [rd EXCEPT !.ndigits = r.bytes]
                /\ IF ~NDigitsAccepted(r.bytes)
                   THEN ReadRaised("UnexpectedResponseFormatError")
                   ELSE rpc' = "length" /\ UNCHANGED ret
    /\ UNCHANGED <<arg, blk, now, wire>>
    /\ CallerIdle /\ PipeIdle

\* lines 246-254: read the length digits, parse them, fix the chunk size
\* and test the loop condition for the first time
ReadLength ==
    /\ arg.op = "read" /\ rpc = "length"
    /\ LET n == PyInt(rd.ndigits).val
           r == RawRecv(n)
           len == PyInt(r.bytes)
           chunk == IF arg.chunk = None \/ arg.chunk[1] = 0
                    THEN Some(len.val) ELSE arg.chunk
       IN  /\ Consume(n)
           /\ IF ~r.ok THEN ReadRaised("TransportError") /\ UNCHANGED rd
              ELSE IF ~len.ok
              THEN /\ ReadRaised("ValueError")
                   /\ rd' = [rd EXCEPT !.block_length = r.bytes]
              ELSE /\ rd' = [rd EXCEPT !.block_length = r.bytes,
                                       !.bytes_remaining = len.val,
                                       !.receive_chunk = chunk]
                   /\ rpc' = IF len.val > 0 THEN "payload" ELSE AfterPayload
                   /\ UNCHANGED ret
    /\ UNCHANGED <<arg, blk, now, wire>>
    /\ CallerIdle /\ PipeIdle

\* The payload loop with a failed read taken as the end of the payload.
ReadChunk_SwallowFailure ==
    /\ arg.op = "read" /\ rpc = "payload"
    /\ LET n == reach(rd.bytes_remaining, rd.receive_chunk[1])
           r == RawRecv(n)
           left == rd.bytes_remaining - Len(r.bytes)
       IN  /\ Consume(n)
           /\ IF ~r.ok THEN rpc' = AfterPayload /\ UNCHANGED <<rd, ret>>
              ELSE /\ rd' = [rd EXCEPT !.bytes_remaining = left,
                                       !.data = Accumulate(rd.data, r.bytes)]
                   /\ rpc' = IF left > 0 THEN "payload" ELSE AfterPayload
                   /\ UNCHANGED ret
    /\ UNCHANGED <<arg, blk, now, wire>>
    /\ CallerIdle /\ PipeIdle

\* lines 254-258: one iteration of the payload loop
ReadChunk ==
    /\ arg.op = "read" /\ rpc = "payload"
    /\ LET n == reach(rd.bytes_remaining, rd.receive_chunk[1])
           r == RawRecv(n)
           left == rd.bytes_remaining - Len(r.bytes)
       IN  /\ Consume(n)
           /\ IF ~r.ok THEN ReadRaised("TransportError") /\ UNCHANGED rd
              ELSE /\ rd' = [rd EXCEPT !.bytes_remaining = left,
                                       !.data = Accumulate(rd.data, r.bytes)]
                   /\ rpc' = IF left > 0 THEN "payload" ELSE AfterPayload
                   /\ UNCHANGED ret
    /\ UNCHANGED <<arg, blk, now, wire>>
    /\ CallerIdle /\ PipeIdle

\* lines 260-262: the trailing termination characters are read and dropped
ReadTermination ==
    /\ arg.op = "read" /\ rpc = "term"
    /\ LET n == TerminationSize(arg.term[1])
       IN  /\ Consume(n)
           /\ IF ~RawRecv(n).ok THEN ReadRaised("TransportError")
              ELSE rpc' = "assemble" /\ UNCHANGED ret
    /\ UNCHANGED <<arg, blk, now, wire, rd>>
    /\ CallerIdle /\ PipeIdle

\* lines 264-266: the block is assembled and handed to the constructor
Assemble ==
    /\ arg.op = "read" /\ rpc = "assemble"
    /\ LET block == rd.pound \o rd.ndigits \o rd.block_length \o rd.data
           b == NewBlock("DefiniteLengthBlock", Some(block), arg.block_id, None,
                         "bytes")
       IN  IF b.state = "ok"
           THEN /\ blk' = b
                /\ rpc' = "done"
                /\ ret' = [kind |-> "blockobj"]
           ELSE /\ ReadRaised(b.exc)
                /\ UNCHANGED blk
    /\ UNCHANGED <<arg, now, wire, pos, reads, rd>>
    /\ CallerIdle /\ PipeIdle

\* Payloads on the wire: every short one, and one of each longer length
\* whose bytes tell their positions apart.
LongPayload(n) == [i \in 1..n |-> 48 + ((i * i) % 7)]
ReadPayloads ==
    SeqsUpTo(ReadPayloadBytes, MaxSmallPayload)
    \cup {LongPayload(n) : n \in (MaxSmallPayload + 1)..MaxReadPayload}

Trails == {[i \in 1..k |-> 97] : k \in 0..MaxTrail}

\* A well-formed block, the termination characters (or none) and whatever
\* the instrument sent after them.
FramedWire(p, t, x) == _create_block("DefiniteLengthBlock", p).block \o t \o x

Wires ==
    {FramedWire(p, t, x) : p \in ReadPayloads,
                           t \in Terminations \cup {<<>>}, x \in Trails}
    \cup SeqsUpTo(JunkBytes, MaxJunkLen)

ReadArgs ==
    {[op |-> "read", block_id |-> 0, chunk |-> c, term |-> t]
        : c \in {None} \cup {Some(k) : k \in ChunkSizes},
          t \in {None, Some(<<>>)} \cup {Some(t) : t \in Terminations}}

InitRead ==
    /\ arg \in ReadArgs
    /\ wire \in Wires
    /\ blk = NoBlock
    /\ ret = NoRet
    /\ now = 0
    /\ pos = 0 /\ reads = <<>> /\ rpc = "start" /\ rd = NoLocals
    /\ inbuf = None
    /\ PipeStart

NextRead ==
    \/ ReadPound \/ ReadNDigits \/ ReadLength
    \/ ReadChunk \/ ReadTermination \/ Assemble

SpecRead == InitRead /\ [][NextRead]_vars

-----------------------------------------------------------------------------
(* Specification SpecLoop: read_definite_length_block on a byte source     *)
(* that never raises but may return fewer bytes than asked for, or none.   *)
(* Asked for a negative number of bytes (a RECV_CHUNK of -1 makes reach    *)
(* negative) the source returns what it has at hand, any number of bytes.  *)
(* The header is taken to arrive whole.                                    *)

LoopChunkSizes == {-1, 0, 1, 2}

LoopArgs ==
    {[op |-> "read", block_id |-> 0, chunk |-> c, term |-> t]
        : c \in {None} \cup {Some(k) : k \in LoopChunkSizes},
          t \in {None, Some(<<10>>)}}

LoopWires ==
    {FramedWire(p, <<10>>, <<>>)
        : p \in SeqsUpTo(ReadPayloadBytes, MaxSmallPayload)}

InitLoop ==
    /\ arg \in LoopArgs
    /\ wire \in LoopWires
    /\ blk = NoBlock
    /\ ret = NoRet
    /\ now = 0
    /\ pos = 0 /\ reads = <<>> /\ rpc = "start" /\ rd = NoLocals
    /\ inbuf = None
    /\ PipeStart

\* the numbers of bytes raw_recv(n) may return
SourceReturns(n) ==
    0..(IF n < 0 THEN Len(wire) - pos ELSE Min(n, Len(wire) - pos))

\* lines 253-257: one pass of the payload loop
ReadChunkShort ==
    /\ arg.op = "read" /\ rpc = "payload"
    /\ Len(reads) < MaxReads
    /\ LET n == reach(rd.bytes_remaining, rd.receive_chunk[1])
       IN  \E k \in SourceReturns(n) :
              LET received_data == SubSeq(wire, pos + 1, pos + k)
                  left == rd.bytes_remaining - Len(received_data)
              IN  /\ reads' = Append(reads, n)
                  /\ pos' = pos + k
                  /\ rd' = [rd EXCEPT !.bytes_remaining = left,
                                      !.data = Accumulate(rd.data, received_data)]
                  /\ rpc' = IF left > 0 THEN "payload" ELSE AfterPayload
    /\ UNCHANGED <<arg, blk, ret, now, wire>>
    /\ CallerIdle /\ PipeIdle

\* lines 260-262: the termination read; what the source returns, all of
\* the termination, part of it or nothing, is dropped
ReadTerminationShort ==
    /\ arg.op = "read" /\ rpc = "term"
    /\ LET n == TerminationSize(arg.term[1])
       IN  \E k \in SourceReturns(n) :
              /\ reads' = Append(reads, n)
              /\ pos' = pos + k
    /\ rpc' = "assemble"
    /\ UNCHANGED <<arg, blk, ret, now, wire, rd>>
    /\ CallerIdle /\ PipeIdle

NextLoop ==
    \/ ReadPound \/ ReadNDigits \/ ReadLength
    \/ ReadChunkShort \/ ReadTerminationShort \/ Assemble

SpecLoop == InitLoop /\ [][NextLoop]_vars

-----------------------------------------------------------------------------
(* The command pipeline of one connection.  A driver class is composed as  *)
(* (driver, ErrorQueueImplementation, ErrorQueueInstrument, ...,           *)
(* IORateLimiterMixin, transport): send, recv and query of the connection  *)
(* are ErrorQueueInstrument's, whose super() calls reach the rate limiter, *)
(* whose super() calls reach the transport.  The methods run on one        *)
(* thread; stack holds their frames.  Time is counted in ticks.            *)

\* a text is a sequence of character codes: 0  +0  (empty)  -2,"x"  -2  x,y
Responses ==
    {<<48>>, <<43, 48>>, <<>>, <<45, 50, 44, 34, 120, 34>>, <<45, 50>>,
     <<120, 44, 121>>}

\* what a method hands to its caller: a value (None or a text) or an
\* exception
Value(v) == [kind |-> "value", val |-> v]
Exc(e, code, msg) == [kind |-> "raised", exc |-> e, code |-> code, msg |-> msg]
TransportError == Exc("TransportError", 0, <<>>)

\* obj.<name>: the value bound in the object's __dict__, else the class
\* attribute.  _dict is the object's __dict__, cls its class's attributes.
getattr_(cls, _dict, name) ==
    IF _dict[name] = Unbound THEN cls[name] ELSE _dict[name][1]

\* self.<name> = value, as every assignment of the mixins is written: the
\* name is bound in the __dict__ of self and the class attribute stays
setattr_ClassBinding(c, name, value) == [c EXCEPT !.cls[name] = value]
setattr_(c, name, value) == [c EXCEPT !.dict[name] = Bound(value)]

\* the attributes as the methods read them through self, and as they read
\* through the second object
self == [name \in AttrNames |-> getattr_(conn.cls, conn.dict, name)]
other == [name \in AttrNames |-> getattr_(conn.cls, peer, name)]

\* the auto_dequeue_error_enabled setter
set_auto_dequeue_error_enabled(c, value) ==
    setattr_(c, "auto_dequeue_error_enabled", value)

\* __io_wait: time elapsed since the last recorded I/O, what remains of
\* the minimum interval, and the time slept
elapsed(c) == now - c.time_of_last_io[1]

remaining_Naive(c) == c.io_wait_time
remaining(c) == c.io_wait_time - elapsed(c)

io_wait_Never(c) == 0
io_wait(c) ==
    IF c.io_wait_time > 0 /\ c.time_of_last_io # None /\ remaining(c) > 0
    THEN remaining(c)
    ELSE 0

\* the assignment after super().send / super().recv: skipped when the
\* transport call raised
last_io_after_Always(c, result, t) == setattr_(c, "time_of_last_io", Some(t))
last_io_after(c, result, t) ==
    IF result.kind = "value" THEN setattr_(c, "time_of_last_io", Some(t)) ELSE c

\* query: the flag while the body runs, and the flag set by the finally
\* clause
query_entry_KeepFlag(c) == c
query_entry(c) == set_auto_dequeue_error_enabled(c, FALSE)

query_finally_Skip(c, orig_setting) == c
query_finally(c, orig_setting) ==
    set_auto_dequeue_error_enabled(c, orig_setting)

\* dequeue_error: the same around _query_error and _interpret_error
dequeue_error_entry_KeepFlag(c) == c
dequeue_error_entry(c) == set_auto_dequeue_error_enabled(c, FALSE)
dequeue_error_finally_Skip(c, orig_setting) == c
dequeue_error_finally(c, orig_setting) ==
    set_auto_dequeue_error_enabled(c, orig_setting)

\* _error_regex.match(error): '^(?P<error_code>.*?),(?P<error_msg>.*)$'.
\* A '.' matches any character but a line break (10), and '$' matches at
\* the end of the text or before a line break that ends it.  The lazy
\* first group ends at the first comma; a later comma never helps, since
\* a line break that defeats the match stays in one of the two groups.
\* ok is FALSE when match() returns None.
_error_regex_match(t) ==
    LET commas == {i \in 1..Len(t) : t[i] = 44}
    IN  IF commas = {} THEN [ok |-> FALSE, error_code |-> <<>>, error_msg |-> <<>>]
        ELSE LET i == CHOOSE c \in commas : \A d \in commas : c <= d
                 code == SubSeq(t, 1, i - 1)
                 rest == SubSeq(t, i + 1, Len(t))
                 msg == IF rest # <<>> /\ rest[Len(rest)] = 10
                        THEN SubSeq(rest, 1, Len(rest) - 1) ELSE rest
                 breaks(u) == \E j \in 1..Len(u) : u[j] = 10
             IN  [ok |-> ~breaks(code) /\ ~breaks(msg),
                  error_code |-> code, error_msg |-> msg]

\* int(s) for a str s.  The characters int() drops as white space, and
\* the zeros of the runs of ten decimal digits it reads (Unicode 14.0.0).
StrSpaces ==
    {9, 10, 11, 12, 13, 32, 133, 160, 5760, 8232, 8233, 8239, 8287, 12288}
        \cup (8192..8202)
DecimalZeros ==
    {48, 1632, 1776, 1984, 2406, 2534, 2662, 2790, 2918, 3046, 3174,
     3302, 3430, 3558, 3664, 3792, 3872, 4160, 4240, 6112, 6160, 6470,
     6608, 6784, 6800, 6992, 7088, 7232, 7248, 42528, 43216, 43264,
     43472, 43504, 43600, 44016, 65296, 66720, 68912, 69734, 69872,
     69942, 70096, 70384, 70736, 70864, 71248, 71360, 71472, 71904,
     72016, 72784, 73040, 73120, 92768, 92864, 93008, 120782, 120792,
     120802, 120812, 120822, 123200, 123632, 125264, 130032}
\* a white space character becomes a blank, a decimal digit its ASCII
\* digit; characters below 127 are left as they are
ToAscii(c) ==
    IF c < 127 THEN c
    ELSE IF c \in StrSpaces THEN 32
    ELSE IF \E z \in DecimalZeros : c \in z..(z + 9)
    THEN 48 + (c - (CHOOSE z \in DecimalZeros : c \in z..(z + 9)))
    ELSE c
StrInt(s) == PyInt([i \in 1..Len(s) |-> ToAscii(s[i])])
\* t.strip('"')
RECURSIVE StripQuotes(_)
StripQuotes(t) ==
    IF t # <<>> /\ t[1] = 34 THEN StripQuotes(Tail(t))
    ELSE IF t # <<>> /\ t[Len(t)] = 34 THEN StripQuotes(SubSeq(t, 1, Len(t) - 1))
    ELSE t

\* '0,No Error'
NoErrorText == <<48, 44, 78, 111, 32, 69, 114, 114, 111, 114>>

\* _interpret_error: error is None or a text
_interpret_error(error) ==
    LET e == IF error = None \/ error[1] \in {<<43, 48>>, <<48>>, <<>>}
             THEN NoErrorText ELSE error[1]
        m == _error_regex_match(e)
    IN  IF ~m.ok THEN Exc("AttributeError", 0, <<>>)
        ELSE LET _error_code == StrInt(m.error_code)
                 _error_msg == m.error_msg
             IN  IF ~_error_code.ok THEN Exc("ValueError", 0, <<>>)
                 ELSE IF _error_code.val # 0
                 THEN Exc("InstrumentError", _error_code.val,
                          StripQuotes(_error_msg))
                 ELSE Value(None)

\* frames
Frame(fn, cmd, mark) ==
    [fn |-> fn, pc |-> "begin", cmd |-> cmd, orig |-> FALSE, mark |-> mark,
     stage |-> "begin", held |-> NoResult, res |-> NoResult]

Top == stack[Len(stack)]
Running(fn, pc) == stack # <<>> /\ Top.fn = fn /\ Top.pc = pc
Returned(fn, pc) == Running(fn, pc) /\ retv.kind # "none"
SetTop(f) == [stack EXCEPT ![Len(stack)] = f]
Call(f, callee) == Append(SetTop(f), callee)
Exit(f, res) == SetTop([f EXCEPT !.pc = "exit", !.res = res])

BlockIdle == UNCHANGED <<arg, blk, ret, inbuf>>

\* no statement of the mixins names another object
PeerIdle == UNCHANGED peer

InitPipe ==
    /\ arg = [op |-> "pipeline"]
    /\ blk = NoBlock
    /\ ret = NoRet
    /\ now = 0
    /\ wire = <<>> /\ pos = 0 /\ reads = <<>> /\ rpc = "idle" /\ rd = NoLocals
    /\ inbuf = None
    /\ PipeStart

\* ---- calls made by the user of the connection ----

\* a call is made only when no other is under way (one thread)
Enter(fn, cmd) ==
    /\ stack' = <<Frame(fn, cmd, 0)>>
    /\ retv' = NoResult
    /\ log' = <<>>
    /\ UNCHANGED <<conn, io, now>>
    /\ BlockIdle /\ PeerIdle /\ ReaderIdle

CallSend ==
    /\ stack = <<>> /\ now <= MaxTime
    /\ Enter("send", "CMD")

CallRecv ==
    /\ stack = <<>> /\ now <= MaxTime
    /\ Enter("recv", "")

CallQuery ==
    /\ stack = <<>> /\ now <= MaxTime
    /\ Enter("query", "QRY?")

CallDequeueError ==
    /\ stack = <<>> /\ now <= MaxTime
    /\ Enter("dequeue_error", "")

SetIoMinDelta ==
    /\ stack = <<>>
    /\ \E value \in 0..MaxDelta : conn' = setattr_(conn, "io_wait_time", value)
    /\ UNCHANGED <<stack, retv, log, io, now>>
    /\ BlockIdle /\ PeerIdle /\ ReaderIdle

SetAutoDequeueErrorEnabled ==
    /\ stack = <<>>
    /\ \E value \in BOOLEAN : conn' = set_auto_dequeue_error_enabled(conn, value)
    /\ UNCHANGED <<stack, retv, log, io, now>>
    /\ BlockIdle /\ PeerIdle /\ ReaderIdle

SetAutoDequeueErrorDelay ==
    /\ stack = <<>>
    /\ \E value \in 0..MaxDelay :
          conn' = setattr_(conn, "auto_dequeue_error_delay", value)
    /\ UNCHANGED <<stack, retv, log, io, now>>
    /\ BlockIdle /\ PeerIdle /\ ReaderIdle

\* time passes between two calls
Elapse ==
    /\ stack = <<>> /\ now < MaxTime
    /\ now' = now + 1
    /\ UNCHANGED <<conn, stack, retv, log, io>>
    /\ BlockIdle /\ PeerIdle /\ ReaderIdle

\* ---- IORateLimiterMixin.send / recv ----

\* __io_wait(), then the transport call starts
limiter_wait ==
    /\ \/ Running("RL.send", "begin")
       \/ Running("RL.recv", "begin")
    /\ now' = now + io_wait(self)
    /\ io' = [io EXCEPT !.called_at = now, !.start = now']
    /\ log' = Append(log, <<IF Top.fn = "RL.send" THEN "send" ELSE "recv", Top.cmd>>)
    /\ stack' = SetTop([Top EXCEPT !.pc = "io"])
    /\ UNCHANGED <<conn, retv>>
    /\ BlockIdle /\ PeerIdle /\ ReaderIdle

\* what the transport call may do: send returns None, recv returns a text,
\* either may raise
Outcomes(fn) ==
    IF fn = "RL.send" THEN {Value(None), TransportError}
    ELSE {Value(Some(r)) : r \in Responses} \cup {TransportError}

\* the transport call ends; on a normal return the time is recorded
limiter_return ==
    /\ \/ Running("RL.send", "io")
       \/ Running("RL.recv", "io")
    /\ \E d \in 0..MaxDuration, _retval \in Outcomes(Top.fn) :
          /\ now' = now + d
          /\ conn' = last_io_after(conn, _retval, now')
          /\ io' = [io EXCEPT !.done = Some(now'),
                              !.done_ok = IF _retval.kind = "value"
                                          THEN Some(now') ELSE @]
          /\ stack' = Exit(Top, _retval)
    /\ UNCHANGED <<retv, log>>
    /\ BlockIdle /\ PeerIdle /\ ReaderIdle

\* ---- ErrorQueueInstrument.send ----

send_super ==
    /\ Running("send", "begin")
    /\ stack' = Call([Top EXCEPT !.pc = "sent"],
                     Frame("RL.send", Top.cmd, Len(log)))
    /\ UNCHANGED <<conn, retv, log, io, now>>
    /\ BlockIdle /\ PeerIdle /\ ReaderIdle

\* the sleep and dequeue_error() call shared by send and query
Drain(f) ==
    /\ now' = now + self.auto_dequeue_error_delay
    /\ stack' = Call(f, Frame("dequeue_error", "", Len(log)))

\* send with the drain also made when super().send raised
send_after_DrainOnRaise ==
    /\ Returned("send", "sent")
    /\ retv' = NoResult
    /\ IF self.auto_dequeue_error_enabled
       THEN Drain([Top EXCEPT !.pc = "drained", !.held = retv,
                              !.stage = IF retv.kind = "raised"
                                        THEN "send_raised" ELSE "done"])
       ELSE stack' = Exit([Top EXCEPT !.stage = IF retv.kind = "raised"
                                                THEN "send_raised" ELSE "done"],
                          retv) /\ now' = now
    /\ UNCHANGED <<conn, log, io>>
    /\ BlockIdle /\ PeerIdle /\ ReaderIdle

\* an exception of super().send is re-raised; otherwise the drain if the
\* flag is set
send_after ==
    /\ Returned("send", "sent")
    /\ retv' = NoResult
    /\ IF retv.kind = "raised"
       THEN stack' = Exit([Top EXCEPT !.stage = "send_raised"], retv)
            /\ now' = now
       ELSE IF self.auto_dequeue_error_enabled
       THEN Drain([Top EXCEPT !.pc = "drained", !.stage = "done",
                              !.held = retv])
       ELSE stack' = Exit([Top EXCEPT !.stage = "done"], retv) /\ now' = now
    /\ UNCHANGED <<conn, log, io>>
    /\ BlockIdle /\ PeerIdle /\ ReaderIdle

send_drained ==
    /\ Returned("send", "drained")
    /\ retv' = NoResult
    /\ stack' = Exit(Top, IF retv.kind = "raised" THEN retv ELSE Top.held)
    /\ UNCHANGED <<conn, log, io, now>>
    /\ BlockIdle /\ PeerIdle /\ ReaderIdle

\* ---- ErrorQueueInstrument.recv ----

recv_super ==
    /\ Running("recv", "begin")
    /\ stack' = Call([Top EXCEPT !.pc = "recvd"],
                     Frame("RL.recv", "", Len(log)))
    /\ UNCHANGED <<conn, retv, log, io, now>>
    /\ BlockIdle /\ PeerIdle /\ ReaderIdle

\* recv that drains after reading, as send does after sending
recv_return_Drains ==
    /\ Returned("recv", "recvd")
    /\ retv' = NoResult
    /\ IF retv.kind = "value" /\ self.auto_dequeue_error_enabled
       THEN Drain([Top EXCEPT !.pc = "drained", !.held = retv])
       ELSE stack' = Exit(Top, retv) /\ now' = now
    /\ UNCHANGED <<conn, log, io>>
    /\ BlockIdle /\ PeerIdle /\ ReaderIdle

recv_return ==
    /\ Returned("recv", "recvd")
    /\ retv' = NoResult
    /\ stack' = Exit(Top, retv)
    /\ UNCHANGED <<conn, log, io, now>>
    /\ BlockIdle /\ PeerIdle /\ ReaderIdle

\* ---- ErrorQueueInstrument.query ----

\* orig_setting saved, flag cleared, self.send(command)
query_begin ==
    /\ Running("query", "begin")
    /\ conn' = query_entry(conn)
    /\ stack' = Call([Top EXCEPT !.pc = "sent",
                                 !.orig = self.auto_dequeue_error_enabled],
                     Frame("send", Top.cmd, Len(log)))
    /\ UNCHANGED <<retv, log, io, now>>
    /\ BlockIdle /\ PeerIdle /\ ReaderIdle

\* self.send is outside the try: when it raises the method is left at once;
\* otherwise self.recv()
query_after_send ==
    /\ Returned("query", "sent")
    /\ retv' = NoResult
    /\ IF retv.kind = "raised"
       THEN stack' = Exit([Top EXCEPT !.stage = "send_raised"], retv)
       ELSE stack' = Call([Top EXCEPT !.pc = "recvd"],
                          Frame("recv", "", Len(log)))
    /\ UNCHANGED <<conn, log, io, now>>
    /\ BlockIdle /\ PeerIdle /\ ReaderIdle

\* finally: the flag is restored; then, on a normal return of recv, the
\* drain if the flag is set
query_after_recv ==
    /\ Returned("query", "recvd")
    /\ retv' = NoResult
    /\ conn' = query_finally(conn, Top.orig)
    /\ IF retv.kind = "raised"
       THEN stack' = Exit([Top EXCEPT !.stage = "recv_raised"], retv)
            /\ now' = now
       ELSE IF self'.auto_dequeue_error_enabled
       THEN Drain([Top EXCEPT !.pc = "drained", !.stage = "done",
                              !.held = retv])
       ELSE stack' = Exit([Top EXCEPT !.stage = "done"], retv) /\ now' = now
    /\ UNCHANGED <<log, io>>
    /\ BlockIdle /\ PeerIdle /\ ReaderIdle

query_drained ==
    /\ Returned("query", "drained")
    /\ retv' = NoResult
    /\ stack' = Exit(Top, IF retv.kind = "raised" THEN retv ELSE Top.held)
    /\ UNCHANGED <<conn, log, io, now>>
    /\ BlockIdle /\ PeerIdle /\ ReaderIdle

\* ---- ErrorQueueInstrument.dequeue_error ----

\* orig_setting saved, flag cleared, _query_error(): self.query('SYST:ERR?')
dequeue_error_begin ==
    /\ Running("dequeue_error", "begin")
    /\ conn' = dequeue_error_entry(conn)
    /\ log' = Append(log, <<"drain", "">>)
    /\ stack' = Call([Top EXCEPT !.pc = "queried",
                                 !.orig = self.auto_dequeue_error_enabled],
                     Frame("query", "SYST:ERR?", Len(log')))
    /\ UNCHANGED <<retv, io, now>>
    /\ BlockIdle /\ PeerIdle /\ ReaderIdle

\* _interpret_error(error) unless the query raised; finally: flag restored
dequeue_error_end ==
    /\ Returned("dequeue_error", "queried")
    /\ retv' = NoResult
    /\ conn' = dequeue_error_finally(conn, Top.orig)
    /\ stack' = Exit(Top, IF retv.kind = "raised" THEN retv
                          ELSE _interpret_error(retv.val))
    /\ UNCHANGED <<log, io, now>>
    /\ BlockIdle /\ PeerIdle /\ ReaderIdle

\* ---- a method returns to its caller ----

Return ==
    /\ stack # <<>> /\ Top.pc = "exit"
    /\ stack' = SubSeq(stack, 1, Len(stack) - 1)
    /\ retv' = Top.res
    /\ UNCHANGED <<conn, log, io, now>>
    /\ BlockIdle /\ PeerIdle /\ ReaderIdle

NextPipe ==
    \/ CallSend \/ CallRecv \/ CallQuery \/ CallDequeueError
    \/ SetIoMinDelta \/ SetAutoDequeueErrorEnabled \/ SetAutoDequeueErrorDelay
    \/ Elapse
    \/ limiter_wait \/ limiter_return
    \/ send_super \/ send_after \/ send_drained
    \/ recv_super \/ recv_return
    \/ query_begin \/ query_after_send \/ query_after_recv \/ query_drained
    \/ dequeue_error_begin \/ dequeue_error_end
    \/ Return

SpecPipe == InitPipe /\ [][NextPipe]_vars

-----------------------------------------------------------------------------
(* Specification SpecTwo: the pipeline of one connection while a second    *)
(* connection object of the same class exists, either new or used before.  *)
(* Both read a name they have not bound from the class they share.         *)

\* what the second object has bound by its own earlier use: nothing, the
\* names of one of the two mixins, or all four
UsedValues ==
    [time_of_last_io |-> Some(0), io_wait_time |-> MaxDelta,
     auto_dequeue_error_enabled |-> TRUE, auto_dequeue_error_delay |-> 0]
RateLimiterNames == {"time_of_last_io", "io_wait_time"}
ErrorQueueNames == {"auto_dequeue_error_enabled", "auto_dequeue_error_delay"}
PeerStates ==
    {[name \in AttrNames |->
         IF name \in B THEN Bound(UsedValues[name]) ELSE Unbound]
        : B \in {{}, RateLimiterNames, ErrorQueueNames, AttrNames}}

InitTwo ==
    /\ arg = [op |-> "pipeline"]
    /\ blk = NoBlock
    /\ ret = NoRet
    /\ now = 0
    /\ wire = <<>> /\ pos = 0 /\ reads = <<>> /\ rpc = "idle" /\ rd = NoLocals
    /\ inbuf = None
    /\ conn = NewObject
    /\ stack = <<>>
    /\ retv = NoResult
    /\ log = <<>>
    /\ io = NoIo
    /\ peer \in PeerStates

SpecTwo == InitTwo /\ [][NextPipe]_vars

-----------------------------------------------------------------------------
(* Specification SpecTxn: a driver method that fetches a binary block,     *)
(* Infiniium90000.get_system_setup_binary: self.send(":SYST:SET?") through *)
(* the pipeline, then read_definite_length_block(self.raw_recv, ...).      *)
(* raw_recv is the transport's own method: neither mixin overrides it.     *)

\* what the instrument answers to the command
TxnWires ==
    {FramedWire(p, <<10>>, <<>>) : p \in SeqsUpTo(ReadPayloadBytes, MaxSmallPayload)}
    \cup {<<>>, <<48>>}

\* RECV_CHUNK and RECV_TERMINATION of the driver class
TxnArgs ==
    {[op |-> "read", block_id |-> 0, chunk |-> c, term |-> Some(<<10>>)]
        : c \in {None, Some(1)}}

InitTxn ==
    /\ arg \in TxnArgs
    /\ wire \in TxnWires
    /\ blk = NoBlock
    /\ ret = NoRet
    /\ now = 0
    /\ pos = 0 /\ reads = <<>> /\ rpc = "idle" /\ rd = NoLocals
    /\ inbuf = None
    /\ PipeStart

CallGetSystemSetupBinary ==
    /\ stack = <<>> /\ rpc = "idle" /\ now <= MaxTime
    /\ Enter("get_system_setup_binary", ":SYST:SET?")

\* self.send(":SYST:SET?")
binary_send ==
    /\ Running("get_system_setup_binary", "begin")
    /\ stack' = Call([Top EXCEPT !.pc = "sent"],
                     Frame("send", Top.cmd, Len(log)))
    /\ UNCHANGED <<conn, retv, log, io, now>>
    /\ BlockIdle /\ PeerIdle /\ ReaderIdle

\* send returned: read_definite_length_block is entered; send raised: the
\* method is left
binary_read ==
    /\ Returned("get_system_setup_binary", "sent")
    /\ retv' = NoResult
    /\ IF retv.kind = "raised"
       THEN stack' = Exit(Top, retv) /\ rpc' = rpc
       ELSE stack' = SetTop([Top EXCEPT !.pc = "reading"]) /\ rpc' = "start"
    /\ UNCHANGED <<conn, log, io, now, wire, pos, reads, rd>>
    /\ BlockIdle /\ PeerIdle

\* read_definite_length_block returned the block or raised
binary_return ==
    /\ Running("get_system_setup_binary", "reading")
    /\ rpc \in {"done", "raised"}
    /\ stack' = Exit(Top, IF rpc = "done" THEN Value(Some(Raw(blk)))
                          ELSE Exc(ret.exc, 0, <<>>))
    /\ UNCHANGED <<conn, retv, log, io, now>>
    /\ BlockIdle /\ PeerIdle /\ ReaderIdle

NextTxn ==
    \/ SetIoMinDelta \/ SetAutoDequeueErrorEnabled
    \/ CallGetSystemSetupBinary
    \/ binary_send \/ binary_read \/ binary_return
    \/ ReadPound \/ ReadNDigits \/ ReadLength
    \/ ReadChunk \/ ReadTermination \/ Assemble
    \/ limiter_wait \/ limiter_return
    \/ send_super \/ send_after \/ send_drained
    \/ recv_super \/ recv_return
    \/ query_begin \/ query_after_send \/ query_after_recv
    \/ dequeue_error_begin \/ dequeue_error_end
    \/ Return

SpecTxn == InitTxn /\ [][NextTxn]_vars

-----------------------------------------------------------------------------
(* Properties of the codec, checked under SpecBlock.                       *)

\* The decimal value of a sequence of ASCII digits.
RECURSIVE Decimal(_)
Decimal(s) ==
    IF s = <<>> THEN 0
    ELSE 10 * Decimal(SubSeq(s, 1, Len(s) - 1)) + (s[Len(s)] - 48)

\* Number of decimal digits of n >= 0.
NumDigits(n) == CHOOSE d \in 1..12 : (d = 1 \/ n >= 10 ^ (d - 1)) /\ n < 10 ^ d

\* A constructor call building a definite-length block from a payload.
EncodeCall ==
    /\ arg.op = "new" /\ arg.cls = "DefiniteLengthBlock"
    /\ arg.block = None /\ arg.data # None

\* A constructor call decoding a definite-length block from wire bytes.
DecodeCall ==
    /\ arg.op = "new" /\ arg.cls = "DefiniteLengthBlock"
    /\ arg.block # None /\ arg.data = None

\* b has a valid header: '#', a digit d in '1'..'9', then d ASCII digits.
ValidHeader(b) ==
    /\ Len(b) >= 2
    /\ b[1] = 35
    /\ b[2] \in 49..57
    /\ Len(b) >= 2 + (b[2] - 48)
    /\ \A i \in 3..(2 + (b[2] - 48)) : IsDigit(b[i])

HeaderDigitCount(b) == b[2] - 48
HeaderPayloadLength(b) == Decimal(SubSeq(b, 3, 2 + HeaderDigitCount(b)))

\* C1: round trip - building a definite-length block from any payload p,
\* the empty one included, succeeds and the block's data is exactly p.
RoundTrip ==
    (EncodeCall /\ blk # NoBlock)
        => (blk.state = "ok" /\ Data(blk) = arg.data[1])

\* C2: _create_block returns '#', the ASCII count of length digits, the
\* ASCII decimal payload length, then the payload unchanged.
EncodeFormat ==
    (arg.op = "create" /\ arg.cls = "DefiniteLengthBlock" /\ ret # NoRet) =>
        LET p == arg.data[1]
            d == NumDigits(Len(p))
        IN  /\ ret.kind = "block"
            /\ Len(ret.val) = 2 + d + Len(p)
            /\ ret.val[1] = 35
            /\ ret.val[2] = 48 + d
            /\ \A i \in 3..(2 + d) : IsDigit(ret.val[i])
            /\ Decimal(SubSeq(ret.val, 3, 2 + d)) = Len(p)
            /\ SubSeq(ret.val, 3 + d, Len(ret.val)) = p

\* C2 witness: an 11-byte payload ('Hello world' is one) was encoded with
\* the header '#211'.
EncodeElevenBytes ==
    /\ arg.op = "create" /\ arg.cls = "DefiniteLengthBlock"
    /\ Len(arg.data[1]) = 11
    /\ ret.kind = "block"
    /\ SubSeq(ret.val, 1, 4) = <<35, 50, 49, 49>>
    /\ SubSeq(ret.val, 5, 15) = arg.data[1]

\* C3: encoding never fails, the digit-count byte it writes is one ASCII
\* digit '1'..'9' equal to the number of decimal digits of the payload
\* length, and the header is exactly 2 + digit_count bytes long.
EncodeNeverFails ==
    (EncodeCall /\ blk # NoBlock) =>
        /\ blk.state = "ok"
        /\ Raw(blk)[2] \in 49..57
        /\ Raw(blk)[2] - 48 = NumDigits(Len(arg.data[1]))
        /\ blk.begin = 2 + (Raw(blk)[2] - 48)

\* C4: a block with a valid header that holds at least 2+d+L bytes decodes
\* to digit_count d, payload_length L and data = raw[2+d, 2+d+L); bytes
\* after offset 2+d+L are not part of data.
DecodeValidBlock ==
    (DecodeCall /\ blk # NoBlock /\ ValidHeader(arg.block[1])
       /\ Len(arg.block[1]) >= 2 + HeaderDigitCount(arg.block[1])
                                 + HeaderPayloadLength(arg.block[1])) =>
        LET b == arg.block[1]
            d == HeaderDigitCount(b)
            L == HeaderPayloadLength(b)
        IN  /\ blk.state = "ok"
            /\ Raw(blk) = b
            /\ blk.begin = 2 + d
            /\ blk.end = 2 + d + L
            /\ Len(Data(blk)) = L
            /\ \A i \in 1..L : Data(blk)[i] = b[2 + d + i]

\* C4 witness: a decoded block with a non-empty payload followed by bytes
\* that are not part of its data.
DecodedWithTrailingBytes ==
    /\ DecodeCall /\ blk.state = "ok"
    /\ ValidHeader(arg.block[1])
    /\ HeaderPayloadLength(arg.block[1]) > 0
    /\ Len(arg.block[1]) > blk.end
    /\ Len(Data(blk)) = HeaderPayloadLength(arg.block[1])

\* C5: header rejection - decoding a byte string that is empty, does not
\* start with '#', or whose second byte is not '1'..'9' fails with
\* InvalidBlockFormatError.
HeaderRejection ==
    (DecodeCall /\ blk # NoBlock
       /\ \/ arg.block[1] = <<>>
          \/ arg.block[1][1] # 35
          \/ Len(arg.block[1]) < 2
          \/ arg.block[1][2] \notin 49..57) =>
        (blk.state = "raised" /\ blk.exc = "InvalidBlockFormatError")

\* C6: a block starting with '#0' is rejected with the error kind kept for
\* unsupported (indefinite-length) blocks, not with the kind a malformed
\* header gets.
IndefiniteRejectedDistinctly ==
    (DecodeCall /\ blk # NoBlock
       /\ Len(arg.block[1]) >= 2
       /\ SubSeq(arg.block[1], 1, 2) = <<35, 48>>) =>
        /\ blk.state = "raised"
        /\ blk.exc \in {"UnsupportedBlockFormatError", "NotImplementedError"}

\* C7: a block with a valid header but fewer than 2 + digit_count +
\* payload_length bytes fails with InvalidBlockFormatError.
TruncatedRejected ==
    (DecodeCall /\ blk # NoBlock /\ ValidHeader(arg.block[1])
       /\ Len(arg.block[1]) < 2 + HeaderDigitCount(arg.block[1])
                                + HeaderPayloadLength(arg.block[1])) =>
        (blk.state = "raised" /\ blk.exc = "InvalidBlockFormatError")

-----------------------------------------------------------------------------
(* Properties of read_definite_length_block, checked under SpecRead.       *)

\* The wire starts with a well-formed block and holds the termination
\* characters the call is told to expect: every read can be served.
WireServesRead ==
    /\ ValidHeader(wire)
    /\ Len(wire) >= 2 + HeaderDigitCount(wire) + HeaderPayloadLength(wire)
                      + (IF arg.term = None THEN 0 ELSE Len(arg.term[1]))

WirePayload ==
    SubSeq(wire, 3 + HeaderDigitCount(wire),
           2 + HeaderDigitCount(wire) + HeaderPayloadLength(wire))

\* The payload read sizes for a payload of L bytes read c at a time
\* (c = 0: no chunk size given).
ChunkPlan(L, c) ==
    IF L = 0 THEN <<>>
    ELSE IF c = 0 THEN <<L>>
    ELSE [i \in 1..((L + c - 1) \div c) |-> IF i * c <= L THEN c ELSE L - (i - 1) * c]

ArgChunk == IF arg.chunk = None THEN 0 ELSE arg.chunk[1]

\* All the read sizes of a call on a wire with a valid header.
ReadPlan ==
    <<1, 1, HeaderDigitCount(wire)>>
    \o ChunkPlan(HeaderPayloadLength(wire), ArgChunk)
    \o (IF Truthy(arg.term) THEN <<Len(arg.term[1])>> ELSE <<>>)

IsPrefix(s, t) == Len(s) <= Len(t) /\ \A i \in 1..Len(s) : s[i] = t[i]

\* C8: chunked read equivalence - for a well-formed block on the wire the
\* read succeeds and returns the same raw and data (the payload on the
\* wire) whatever the chunk size is.
ChunkedReadEquivalence ==
    (arg.op = "read" /\ WireServesRead) =>
        /\ rpc # "raised"
        /\ rpc = "done" =>
              /\ blk.state = "ok"
              /\ Raw(blk) = SubSeq(wire, 1, 2 + HeaderDigitCount(wire)
                                               + HeaderPayloadLength(wire))
              /\ Data(blk) = WirePayload

\* C8 witness: a 10-byte payload read 7 bytes at a time was reassembled.
ChunkedReadDone ==
    /\ arg.op = "read" /\ rpc = "done"
    /\ arg.chunk = Some(7)
    /\ WireServesRead /\ HeaderPayloadLength(wire) = 10
    /\ Len(reads) >= 5
    /\ Data(blk) = WirePayload

\* C9: the reads are issued in the order 1 byte, 1 byte, digit_count
\* bytes, then payload reads of min(remaining, chunk_size) bytes until
\* nothing remains (one read of the whole payload when no chunk size is
\* given), then the termination read; on a wire whose header is valid the
\* requests made so far are always the first ones of that plan.
ReadRequestSizes ==
    arg.op = "read" =>
        /\ Len(reads) >= 1 => reads[1] = 1
        /\ Len(reads) >= 2 => (wire[1] = 35 /\ reads[2] = 1)
        /\ Len(reads) >= 3 => (wire[2] \in 49..57 /\ reads[3] = wire[2] - 48)
        /\ ValidHeader(wire) =>
              /\ IsPrefix(reads, ReadPlan)
              /\ rpc \in {"assemble", "done"} => reads = ReadPlan

\* C9 witness: a 10-byte payload with chunk size 3 was requested as
\* [3, 3, 3, 1] after the three header reads.
ReadInThrees ==
    /\ arg.op = "read" /\ rpc = "done"
    /\ arg.chunk = Some(3) /\ ~Truthy(arg.term)
    /\ reads = <<1, 1, 2, 3, 3, 3, 1>>
    /\ Len(Data(blk)) = 10

\* C10: when the first byte read is not '#', the call fails with
\* UnexpectedResponseFormatError having consumed exactly 1 byte; nothing
\* more is read and no block is returned.
NonPoundFirstByte ==
    (arg.op = "read" /\ rpc # "start" /\ Len(wire) >= 1 /\ wire[1] # 35) =>
        /\ rpc = "raised"
        /\ ret = [kind |-> "raised", exc |-> "UnexpectedResponseFormatError"]
        /\ pos = 1
        /\ reads = <<1>>
        /\ blk = NoBlock

\* C10 witness: the call failed on a first byte other than '#' with later
\* bytes left unread in the source.
NonPoundRejected ==
    /\ arg.op = "read" /\ rpc = "raised"
    /\ Len(wire) > 1 /\ wire[1] # 35
    /\ pos = 1 /\ rd.pound = <<wire[1]>>

\* C11: when the second byte read is not an ASCII digit '1'..'9' ('0'
\* included), the call fails with UnexpectedResponseFormatError having
\* consumed exactly 2 bytes; no length or payload read is issued and no
\* block is returned.
NonDigitSecondByte ==
    (arg.op = "read" /\ rpc \notin {"start", "ndigits"}
       /\ Len(wire) >= 2 /\ wire[1] = 35 /\ wire[2] \notin 49..57) =>
        /\ rpc = "raised"
        /\ ret = [kind |-> "raised", exc |-> "UnexpectedResponseFormatError"]
        /\ pos = 2
        /\ reads = <<1, 1>>
        /\ blk = NoBlock

\* C11 witness: a wire starting with '#0' was rejected after two reads,
\* with bytes left in the source.
ZeroDigitCountRejected ==
    /\ arg.op = "read" /\ rpc = "raised"
    /\ Len(wire) > 2 /\ wire[1] = 35 /\ wire[2] = 48
    /\ pos = 2 /\ rd.ndigits = <<48>>

\* C12: a successful read consumes exactly 2 + digit_count +
\* payload_length + len(termination) bytes; the termination bytes are
\* asked for last and are not part of the returned block's raw or data.
ConsumedOnSuccess ==
    (arg.op = "read" /\ rpc = "done") =>
        LET tl == IF Truthy(arg.term) THEN Len(arg.term[1]) ELSE 0
            d == Raw(blk)[2] - 48
        IN  /\ pos = 2 + d + Len(Data(blk)) + tl
            /\ Len(Raw(blk)) = 2 + d + Len(Data(blk))
            /\ Raw(blk) = SubSeq(wire, 1, pos - tl)
            /\ ValidHeader(wire) =>
                  /\ d = HeaderDigitCount(wire)
                  /\ Len(Data(blk)) = HeaderPayloadLength(wire)
            /\ tl > 0 => reads[Len(reads)] = tl

\* C12 witness: a block with a payload was read with a two-byte
\* termination, and a later byte is still in the source.
ReadWithTermination ==
    /\ arg.op = "read" /\ rpc = "done"
    /\ arg.term = Some(<<13, 10>>)
    /\ Len(Data(blk)) > 0
    /\ pos = Len(Raw(blk)) + 2
    /\ SubSeq(wire, pos - 1, pos) = <<13, 10>>
    /\ Len(wire) > pos

\* The total number of bytes asked for so far.
RECURSIVE SumSeq(_)
SumSeq(s) == IF s = <<>> THEN 0 ELSE s[1] + SumSeq(Tail(s))

\* A read was issued that the source could not serve.
SourceFailed == SumSeq(reads) > Len(wire)

\* C13: when a read fails at any step, the source's error reaches the
\* caller, nothing more is read and no block is returned.
ReadFailurePropagates ==
    (arg.op = "read" /\ SourceFailed) =>
        /\ rpc = "raised"
        /\ ret = [kind |-> "raised", exc |-> "TransportError"]
        /\ blk = NoBlock
        /\ SumSeq(SubSeq(reads, 1, Len(reads) - 1)) = pos

\* C13 witness: the source failed on a payload chunk after an earlier
\* chunk had been received.
FailedOnLaterChunk ==
    /\ arg.op = "read" /\ rpc = "raised" /\ SourceFailed
    /\ Len(reads) >= 5
    /\ rd.data # <<>>
    /\ blk = NoBlock

-----------------------------------------------------------------------------
(* Properties of the stamps and of immutability.                           *)

\* C14: for a constructed block the checksum accessor returns the digest
\* of the block's data and the timestamp accessor returns the instant set
\* at construction.
StampAccessors ==
    /\ (blk.state = "ok" /\ ret.kind = "checksum")
          => ret.val = compute_checksum(Data(blk))
    /\ (blk.state = "ok" /\ ret.kind = "utc_stamp")
          => ret.val = Some(blk.utc_stamp)

\* C15: once a block is constructed, what raw, data and checksum return
\* never changes, whatever the caller writes into the buffer it passed in
\* or into a value an accessor returned.
BlockNeverChanges ==
    [][blk.state = "ok" =>
          /\ blk'.state = "ok"
          /\ Raw(blk') = Raw(blk)
          /\ Data(blk') = Data(blk)
          /\ checksum(blk') = checksum(blk)]_vars

-----------------------------------------------------------------------------
(* Properties of the rate limiter, checked under SpecPipe.                 *)

\* a transport call of the rate limiter has started and not yet ended
TransportRunning ==
    Running("RL.send", "io") \/ Running("RL.recv", "io")

\* the time the call under way slept in __io_wait
Waited == io.start - io.called_at

\* C16: with io_min_delta = T > 0 each underlying transport call starts at
\* least T after the previous rate-limited send or recv completed, whether
\* that one returned or raised; with T = 0 no call is delayed.
SpacedFromPreviousCall ==
    TransportRunning =>
        /\ (self.io_wait_time > 0 /\ io.done # None)
              => io.start >= io.done[1] + self.io_wait_time
        /\ self.io_wait_time = 0 => Waited = 0

\* C16 (amended): with io_min_delta = T > 0 each underlying transport call
\* starts at least T after the previous rate-limited send or recv that
\* returned normally completed; with T = 0 no call is delayed.
SpacedFromPreviousSuccess ==
    TransportRunning =>
        /\ (self.io_wait_time > 0 /\ io.done_ok # None)
              => io.start >= io.done_ok[1] + self.io_wait_time
        /\ self.io_wait_time = 0 => Waited = 0

\* C16 witness: a call that was held back until exactly T after the
\* previous successful call
HeldBackCall ==
    /\ TransportRunning
    /\ self.io_wait_time > 0 /\ io.done_ok # None
    /\ Waited > 0
    /\ io.start = io.done_ok[1] + self.io_wait_time

\* the step on which the transport call of fn ends
TransportEnds(fn) == Running(fn, "io") /\ Running(fn, "exit")'

\* C17: last_io_at = now is recorded after every send, whether the
\* underlying send returned or raised, and after every recv that returned;
\* a recv that raises leaves last_io_at unchanged.
RecordedAfterEverySend ==
    [][/\ TransportEnds("RL.send")
          => self'.time_of_last_io = Some(now')
       /\ TransportEnds("RL.recv")
          => IF Top'.res.kind = "value"
             THEN self'.time_of_last_io = Some(now')
             ELSE self'.time_of_last_io = self.time_of_last_io]_vars

\* C17 (amended): last_io_at = now is recorded after every send and every
\* recv whose underlying call returned; a send or recv whose underlying
\* call raises leaves last_io_at unchanged.
RecordedAfterSuccess ==
    [][\A fn \in {"RL.send", "RL.recv"} :
          TransportEnds(fn)
          => IF Top'.res.kind = "value"
             THEN self'.time_of_last_io = Some(now')
             ELSE self'.time_of_last_io = self.time_of_last_io]_vars

\* C17 witness: a send has just raised, after an earlier successful call,
\* and the recorded time is still that of the earlier call
SendRaisedUnrecorded ==
    /\ Running("RL.send", "exit")
    /\ Top.res.kind = "raised"
    /\ io.done = Some(now)
    /\ self.time_of_last_io # None
    /\ self.time_of_last_io[1] < now

\* C18: the wait before a rate-limited send or recv is
\* max(0, io_min_delta - (now - last_io_at)) when last_io_at is set and
\* io_min_delta > 0, and zero otherwise, with the io_min_delta current when
\* the call starts.
WaitComputed ==
    TransportRunning =>
        Waited = IF self.time_of_last_io # None /\ self.io_wait_time > 0
                 THEN Max(0, self.io_wait_time
                             - (io.called_at - self.time_of_last_io[1]))
                 ELSE 0

\* C18 witness: a call issued part of the interval after the last one
\* waits for the rest of it only
PartialWait ==
    /\ TransportRunning
    /\ Waited > 0
    /\ Waited < self.io_wait_time

-----------------------------------------------------------------------------
(* Properties of query, checked under SpecPipe.                            *)

\* frame i is a query between its self.send(...) and the end of its
\* self.recv(...)
InQueryBody(i) ==
    stack[i].fn = "query" /\ stack[i].pc \in {"sent", "recvd"}

\* number of dequeue_error calls logged after position mark
DrainsSince(mark) ==
    Cardinality({k \in (mark + 1)..Len(log) : log[k][1] = "drain"})

\* C19: while a query is between its send and the end of its recv the flag
\* is false whenever a transport call runs, no dequeue_error is under way,
\* and the query's send and recv are adjacent in the log of transport
\* calls and drains.
QueryAtomic ==
    \A i \in 1..Len(stack) :
        /\ InQueryBody(i) =>
              /\ TransportRunning => ~self.auto_dequeue_error_enabled
              /\ \A j \in (i + 1)..Len(stack) : stack[j].fn # "dequeue_error"
              /\ Len(log) <= stack[i].mark + 2
        /\ (stack[i].fn = "query" /\ Len(log) >= stack[i].mark + 2) =>
              /\ log[stack[i].mark + 1] = <<"send", stack[i].cmd>>
              /\ log[stack[i].mark + 2] = <<"recv", "">>

\* C19 witness: the recv of a query that was entered with the flag set is
\* running
RecvInsideEnabledQuery ==
    /\ Running("RL.recv", "io")
    /\ \E i \in 1..Len(stack) :
          InQueryBody(i) /\ stack[i].orig /\ stack[i].pc = "recvd"

\* C20: when a query whose send and recv both succeeded ends, the flag has
\* its pre-query value and the query made exactly one dequeue_error call
\* if that value was true and none if it was false; the call comes after
\* the recv.
QueryDrainsOnce ==
    (Running("query", "exit") /\ Top.stage = "done") =>
        /\ self.auto_dequeue_error_enabled = Top.orig
        /\ DrainsSince(Top.mark) = IF Top.orig THEN 1 ELSE 0
        /\ Top.orig => log[Top.mark + 3] = <<"drain", "">>

\* C20 witness: a query entered with the flag set returns its response
\* after one drain
QueryReturnedAfterDrain ==
    /\ Running("query", "exit") /\ Top.stage = "done"
    /\ Top.orig
    /\ Top.res.kind = "value"
    /\ DrainsSince(Top.mark) = 1

-----------------------------------------------------------------------------
(* Properties of the error-queue methods, checked under SpecPipe.          *)

\* C21: when the recv of a query raises, the query ends with that
\* exception, the flag has its pre-query value and the query made no
\* dequeue_error call.
QueryRecvRaised ==
    (Running("query", "exit") /\ Top.stage = "recv_raised") =>
        /\ Top.res = TransportError
        /\ self.auto_dequeue_error_enabled = Top.orig
        /\ DrainsSince(Top.mark) = 0

\* C21 witness: the recv of a query entered with the flag set has raised
EnabledQueryRecvRaised ==
    /\ Running("query", "exit") /\ Top.stage = "recv_raised"
    /\ Top.orig
    /\ Len(log) = Top.mark + 2

\* C22: on every exit path of query, the one where its send raises
\* included, the flag has its pre-query value.
QueryRestoresFlag ==
    Running("query", "exit") => self.auto_dequeue_error_enabled = Top.orig

\* the last transport call of the send under way was its own super().send
\* and nothing was logged after it
OnlyOwnSend(f) == Len(log) = f.mark + 1 /\ log[f.mark + 1] = <<"send", f.cmd>>

\* what holds when a send ends
SendOutcome ==
    Running("send", "exit") =>
        /\ log[Top.mark + 1] = <<"send", Top.cmd>>
        /\ Top.stage = "send_raised"
              => Top.res = TransportError /\ OnlyOwnSend(Top)
        /\ Top.stage = "done"
              => /\ DrainsSince(Top.mark)
                      = IF self.auto_dequeue_error_enabled THEN 1 ELSE 0
                 /\ self.auto_dequeue_error_enabled
                      => log[Top.mark + 2] = <<"drain", "">>

\* C23: a send calls the underlying send first; when that returns and the
\* flag is set it sleeps the auto-dequeue delay and calls dequeue_error
\* exactly once, with the flag clear it calls it zero times; when the
\* underlying send raises it makes no drain and ends with that exception.
SendDrainsOnce ==
    [][/\ SendOutcome'
       /\ (Returned("send", "sent") /\ Running("dequeue_error", "begin")')
             => /\ retv.kind = "value"
                /\ now' - now = self.auto_dequeue_error_delay]_vars

\* C23 witness: a top-level send with the flag set ends after one drain
SendReturnedAfterDrain ==
    /\ Running("send", "exit") /\ Len(stack) = 1
    /\ Top.stage = "done" /\ Top.res.kind = "value"
    /\ self.auto_dequeue_error_enabled
    /\ DrainsSince(0) = 1

\* a recv called by the user is under way
TopLevelRecv == stack # <<>> /\ stack[1].fn = "recv"

\* C24: a recv called on its own makes no dequeue_error call and changes
\* neither auto_dequeue_error_enabled nor auto_dequeue_error_delay.
RecvHasNoSideEffect ==
    [][(TopLevelRecv \/ TopLevelRecv') =>
          /\ self'.auto_dequeue_error_enabled = self.auto_dequeue_error_enabled
          /\ self'.auto_dequeue_error_delay = self.auto_dequeue_error_delay
          /\ DrainsSince(0)' = 0
          /\ \A i \in 1..Len(stack') : stack'[i].fn # "dequeue_error"]_vars

\* C24 witness: a recv made with the flag set returns a text
RecvReturnedWithFlagSet ==
    /\ Running("recv", "exit") /\ Len(stack) = 1
    /\ Top.res.kind = "value"
    /\ self.auto_dequeue_error_enabled

\* C25: when dequeue_error ends, whether the record was no error, or
\* interpretation raised, or the fetch failed, the flag has the value it
\* had before the call, and an exception of the fetch is the one handed to
\* the caller.
DequeueRestoresFlag ==
    [][(Returned("dequeue_error", "queried")
          /\ Running("dequeue_error", "exit")') =>
          /\ self'.auto_dequeue_error_enabled = Top.orig
          /\ Len(stack) > 1 => self'.auto_dequeue_error_enabled
          /\ retv.kind = "raised" => Top'.res = retv
          /\ retv.kind = "value" => Top'.res # TransportError]_vars

\* C25 witness: a dequeue_error called with the flag set ends with an
\* InstrumentError and the flag set again
DequeueRaisedInstrumentError ==
    /\ Running("dequeue_error", "exit")
    /\ Top.orig /\ self.auto_dequeue_error_enabled
    /\ Top.res.kind = "raised" /\ Top.res.exc = "InstrumentError"

\* the "no error" records, and the code a record carries: the text before
\* its first comma, or the whole record when it has no message part
NoErrorRecords == {<<48>>, <<43, 48>>, <<>>}
HasComma(t) == \E i \in 1..Len(t) : t[i] = 44
FirstComma(t) == CHOOSE i \in 1..Len(t) : t[i] = 44 /\ \A j \in 1..(i - 1) : t[j] # 44
RecordCode(t) ==
    StrInt(IF HasComma(t) THEN SubSeq(t, 1, FirstComma(t) - 1) ELSE t)

\* C26: interpreting "0", "+0" or "" never raises; a record with a nonzero
\* code, with or without a message part, raises InstrumentError carrying
\* that code.
InterpretRaisesInstrumentError ==
    [][(Returned("dequeue_error", "queried")
          /\ Running("dequeue_error", "exit")'
          /\ retv.kind = "value") =>
          LET record == retv.val[1]
          IN  /\ record \in NoErrorRecords => Top'.res.kind = "value"
              /\ (RecordCode(record).ok /\ RecordCode(record).val # 0)
                    => /\ Top'.res.kind = "raised"
                       /\ Top'.res.exc = "InstrumentError"
                       /\ Top'.res.code = RecordCode(record).val]_vars

-----------------------------------------------------------------------------
(* Property of a binary block transaction, checked under SpecTxn.          *)

\* the driver method is under way
InTransaction == stack # <<>> /\ stack[1].fn = "get_system_setup_binary"

\* C27: between the command send and the end of the block read there is
\* no 'SYST:ERR?' send and no text recv, whatever the flag, and the reads
\* of the block reader are not delayed by the rate limiter.
BlockReadNotInterleaved ==
    [][InTransaction' =>
          /\ \A k \in 1..Len(log') :
                log'[k] # <<"send", "SYST:ERR?">> /\ log'[k][1] # "recv"
          /\ Len(reads') > Len(reads) => now' = now]_vars

-----------------------------------------------------------------------------
(* Property of two connections, checked under SpecTwo.                     *)

\* C28: whatever is called or assigned on one connection, the last-I/O
\* time, interval, flag and delay of another connection of the same class
\* stay as they are.
PeerUntouched ==
    [][/\ other'.time_of_last_io = other.time_of_last_io
       /\ other'.io_wait_time = other.io_wait_time
       /\ other'.auto_dequeue_error_enabled = other.auto_dequeue_error_enabled
       /\ other'.auto_dequeue_error_delay = other.auto_dequeue_error_delay]_vars

\* C28 witness: after calls and assignments on the connection in use all
\* four of its attributes differ from those of the other connection, which
\* has bound none of them and reads all four from the class
ConnectionsDiffer ==
    /\ stack = <<>> /\ retv.kind = "value"
    /\ peer = NoBinding
    /\ self.time_of_last_io # None
    /\ self.time_of_last_io # other.time_of_last_io
    /\ self.io_wait_time \notin {0, other.io_wait_time}
    /\ self.auto_dequeue_error_enabled # other.auto_dequeue_error_enabled
    /\ self.auto_dequeue_error_delay # other.auto_dequeue_error_delay

-----------------------------------------------------------------------------
(* Draining does not recurse; checked under SpecPipe.                      *)

\* number of logged events of kind ev
Count(ev) == Cardinality({k \in 1..Len(log) : log[k][1] = ev})

\* number of dequeue_error frames under way
DequeueDepth ==
    Cardinality({i \in 1..Len(stack) : stack[i].fn = "dequeue_error"})

\* the call made by the user has ended without an exception of the
\* transport
EndedWithoutTransportError(fn) ==
    /\ Len(stack) = 1 /\ Running(fn, "exit")
    /\ Top.res # TransportError

\* C29: while dequeue_error runs the flag is false and no second
\* dequeue_error starts inside it.  Every transport call is made by the
\* rate limiter.  A top-level send with the flag set ends after exactly 2
\* transport sends and 1 recv, a top-level query after exactly 2 sends and
\* 2 recvs, when no transport call raises, and never after more.
DrainDoesNotRecurse ==
    /\ DequeueDepth <= 1
    /\ \A i \in 1..Len(stack) :
          (stack[i].fn = "dequeue_error" /\ stack[i].pc = "queried")
             => ~self.auto_dequeue_error_enabled
    /\ TransportRunning => log[Len(log)][1] = (IF Top.fn = "RL.send" THEN "send" ELSE "recv")
    /\ (stack # <<>> /\ stack[1].fn = "send")
          => Count("send") <= 2 /\ Count("recv") <= 1 /\ Count("drain") <= 1
    /\ (stack # <<>> /\ stack[1].fn = "query")
          => Count("send") <= 2 /\ Count("recv") <= 2 /\ Count("drain") <= 1
    /\ (EndedWithoutTransportError("send") /\ self.auto_dequeue_error_enabled)
          => Count("send") = 2 /\ Count("recv") = 1
    /\ (EndedWithoutTransportError("query") /\ self.auto_dequeue_error_enabled)
          => Count("send") = 2 /\ Count("recv") = 2

\* C29 witness: a top-level query with the flag set has ended with its
\* response after 2 sends, 2 recvs and 1 drain
QueryEndedAfterFourCalls ==
    /\ EndedWithoutTransportError("query")
    /\ self.auto_dequeue_error_enabled
    /\ Top.res.kind = "value"
    /\ log = <<<<"send", "QRY?">>, <<"recv", "">>, <<"drain", "">>,
               <<"send", "SYST:ERR?">>, <<"recv", "">>>>

-----------------------------------------------------------------------------
(* Property of the payload loop, checked under SpecLoop.                   *)

\* the payload loop was entered and has been left
PayloadLoopLeft ==
    /\ rpc \in {"term", "assemble", "done"}
    /\ rd.block_length # <<>>

\* C30: when no receive call raises, the payload loop ends with exactly
\* the declared number of bytes accumulated, also when the source returns
\* fewer bytes than asked for or none, and when the chunk size is zero or
\* negative.
PayloadHasDeclaredLength ==
    PayloadLoopLeft => Len(rd.data) = PyInt(rd.block_length).val

====
